---- MODULE Spec2Model ----
(***************************************************************************)
(* Model of the vectorized aggregation hash table                          *)
(* (src/query/expression/src/aggregate/aggregate_hashtable.rs) with one    *)
(* SUM aggregate (src/query/functions/src/aggregates/aggregate_sum.rs).    *)
(*                                                                         *)
(* Batch row indices, directory slots and payload rows are 0-based as in   *)
(* the source; TLA+ sequences are 1-based, so slot s of the directory is   *)
(* entries[s + 1] and payload row r is payload[r + 1].                     *)
(*                                                                         *)
(* A 64-bit hash is the record [hi, lo]: hi is the high 16 bits            *)
(* (hash >> 48), lo the low 48 bits.                                       *)
(*                                                                         *)
(* The for loops of the source are folds over an index range; they are     *)
(* written as XRange(lo, hi, acc), which applies the loop body X to lo,     *)
(* lo + 1, ..., hi in that order (the range is split in two halves, and    *)
(* the first half is computed before the second is started; Evaluated(acc)  *)
(* makes the accumulator a computed value before the range is entered).    *)
(***************************************************************************)
EXTENDS Integers, Sequences, FiniteSets, TLC

\* ------------------------------------------------------------------ bounds
MaxCalls == 88         \* one-row add_groups calls in a behaviour of fresh keys only
MaxShortCalls == 4     \* non-empty add_groups calls in every other behaviour
MaxHits == 1           \* one-row calls that create no group in one behaviour
MaxResizeCalls == 1    \* direct resize() calls in one behaviour
MaxOtherCalls == 2     \* non-empty add_groups calls on the second table
MaxMerges == 1         \* combine calls in one behaviour
SmallKeyCount == 2     \* group keys used by the one-row and two-row batches
row_per_page == 4      \* payload.row_per_page (layout dependent in the code)

\* ------------------------------------------------------- program constants
InitialCapacity == 128
LOAD_FACTOR_NUM == 3   \* LOAD_FACTOR = 1.5 = 3 / 2
LOAD_FACTOR_DEN == 2
ForcedRows == 200      \* the forced-resize scenario: 200 distinct keys
DecimalMax == 9        \* T::Scalar::MAX of a decimal type in the units of the
                       \* model (10^38 - 1 for the 128-bit width); MIN = -MAX
DecimalStep == 4       \* the magnitude of the decimal values fed, same units

FullRows == 126        \* rows of the table that has been filled up to the
                       \* initial capacity by one-row batches of fresh keys

NULL == -1             \* a null row pointer in ProbeState.addresses

\* ---------------------------------------------------------- small helpers
RECURSIVE Pow2(_)
Pow2(n) == IF n = 0 THEN 1 ELSE 2 * Pow2(n - 1)

IsPowerOfTwo(n) == \E e \in 0..20 : n = Pow2(e)

Range(s) == {s[i] : i \in DOMAIN s}

Min(S) == CHOOSE x \in S : \A y \in S : x <= y

\* TRUE once the value v has been computed
Evaluated(v) == v = v

\* ------------------------------------------------------------- directory
\* struct Entry { salt: u16, page_offset: u16, page_nr: u32 }
EmptyEntry == [salt |-> 0, page_offset |-> 0, page_nr |-> 0]

\* vec![0u64; capacity] reinterpreted as entries: all fields zero
new_entries(cap) == [i \in 1..cap |-> EmptyEntry]

\* ---------------------------------------------------------------- hashes
ZeroHash == [hi |-> 0, lo |-> 0]

\* let hashes = vec![0u64; row_count];  the buffer is borrowed immutably by
\* ajust_group_columns and append_rows, so it stays all zero
hashes(row_count) == [i \in 1..row_count |-> ZeroHash]

\* (hash >> (64 - 16)) as u16
HashSalt(hash) == hash.hi

\* hash & (capacity - 1), capacity a power of two no larger than 2^48
HashSlot(hash, cap) == hash.lo % cap

\* ProbeState::ajust_group_columns: salts and initial probe positions are
\* derived from the hashes it is handed; addresses are scratch
ajust_group_columns(hs, row_count, cap) ==
    [ht_offsets |-> [i \in 1..row_count |-> HashSlot(hs[i], cap)],
     hash_salts |-> [i \in 1..row_count |-> HashSalt(hs[i])],
     addresses  |-> [i \in 1..row_count |-> NULL]]

\* SelectVector::auto_increment restricted to the batch: get_index(i) = i
auto_increment(row_count) == [i \in 1..row_count |-> i - 1]

\* --------------------------------------------------------------- payload
\* number of pages holding len rows
NumPages(len) == (len + row_per_page - 1) \div row_per_page

\* AppendRow that copies the group values of input row 0
AppendRow_FirstKey(acc, index, hs, keys) ==
    [payload   |-> Append(acc.payload,
                     [key |-> keys[1], hash |-> hs[index + 1], sum |-> 0]),
     addresses |-> [acc.addresses EXCEPT ![index + 1] = Len(acc.payload)]]

\* body of Payload::append_rows for the j-th selected input row: one new row
\* with the row's group key and hash and an initialised state (SUM: 0); the
\* address of the new row is left in state.addresses
AppendRow(acc, index, hs, keys) ==
    [payload   |-> Append(acc.payload,
                     [key |-> keys[index + 1], hash |-> hs[index + 1], sum |-> 0]),
     addresses |-> [acc.addresses EXCEPT ![index + 1] = Len(acc.payload)]]

RECURSIVE AppendRange(_,_,_,_,_,_)
AppendRange(sel, lo, hi, hs, keys, acc) ==
    IF ~Evaluated(acc) \/ lo > hi THEN acc
    ELSE IF lo = hi THEN AppendRow(acc, sel[lo], hs, keys)
    ELSE AppendRange(sel, (lo + hi) \div 2 + 1, hi, hs, keys,
             AppendRange(sel, lo, (lo + hi) \div 2, hs, keys, acc))

\* Payload::append_rows(state, hashes, selection, n, group_columns): appends
\* the first n rows of the selection.  The directory is not an argument.
append_rows(pl, addrs, hs, sel, n, keys) ==
    AppendRange(sel, 1, n, hs, keys, [payload |-> pl, addresses |-> addrs])

\* ------------------------------------------------------------ classify
\* lines 149-153: the slot is empty, the row claims it
ClaimEntry(acc, index, off, salt) ==
    [acc EXCEPT !.entries[off + 1].salt = salt,
                !.entries[off + 1].page_nr = 1,
                !.empty_vector = Append(@, index)]

\* lines 145-165 for a row whose probe position off is inside the directory
ClassifyEntry(acc, index, off, entry, salt) ==
    IF entry.page_nr = 0 THEN ClaimEntry(acc, index, off, salt)
    ELSE IF entry.salt = salt
    THEN [acc EXCEPT !.group_compare_vector = Append(@, index)]
    ELSE [acc EXCEPT !.no_match_vector = Append(@, index)]

\* body of the for loop of lines 143-166 for one row of the selection
ClassifyRow(acc, index, ps) ==
    IF acc.panic THEN acc
    ELSE IF ps.ht_offsets[index + 1] >= Len(acc.entries)
    THEN [acc EXCEPT !.panic = TRUE]                  \* index out of bounds
    ELSE ClassifyEntry(acc, index, ps.ht_offsets[index + 1],
                       acc.entries[ps.ht_offsets[index + 1] + 1],
                       ps.hash_salts[index + 1])

RECURSIVE ClassifyRange(_,_,_,_,_)
ClassifyRange(sel, lo, hi, ps, acc) ==
    IF ~Evaluated(acc) \/ lo > hi THEN acc
    ELSE IF lo = hi THEN ClassifyRow(acc, sel[lo], ps)
    ELSE ClassifyRange(sel, (lo + hi) \div 2 + 1, hi, ps,
             ClassifyRange(sel, lo, (lo + hi) \div 2, ps, acc))

\* step 1 of the probe loop over the whole selection
Classify(sel, ps, ents) ==
    ClassifyRange(sel, 1, Len(sel), ps,
        [entries |-> ents, empty_vector |-> <<>>, group_compare_vector |-> <<>>,
         no_match_vector |-> <<>>, panic |-> FALSE])

\* lines 183-187: payload.get_row_ptr(entry.page_nr - 1, entry.page_offset)
ResolveEntry(acc, index, entry, len) ==
    IF entry.page_nr = 0
    THEN [acc EXCEPT !.panic = TRUE]                  \* page_nr - 1 underflows
    ELSE IF entry.page_nr - 1 >= NumPages(len)
            \/ (entry.page_nr - 1) * row_per_page + entry.page_offset >= len
    THEN [acc EXCEPT !.panic = TRUE]                  \* no such page or row
    ELSE [acc EXCEPT !.addresses[index + 1] =
             (entry.page_nr - 1) * row_per_page + entry.page_offset]

\* body of the for loop of lines 180-188 for one row of group_compare_vector.
\* The directory is indexed with the batch row index, as the source does.
ResolveRow(acc, index, ents, len) ==
    IF acc.panic THEN acc
    ELSE IF index >= Len(ents)
    THEN [acc EXCEPT !.panic = TRUE]                  \* index out of bounds
    ELSE ResolveEntry(acc, index, ents[index + 1], len)

RECURSIVE ResolveRange(_,_,_,_,_,_)
ResolveRange(cmp, lo, hi, ents, len, acc) ==
    IF ~Evaluated(acc) \/ lo > hi THEN acc
    ELSE IF lo = hi THEN ResolveRow(acc, cmp[lo], ents, len)
    ELSE ResolveRange(cmp, (lo + hi) \div 2 + 1, hi, ents, len,
             ResolveRange(cmp, lo, (lo + hi) \div 2, ents, len, acc))

\* step 3 of the probe loop over group_compare_vector
ResolveAddresses(cmp, ents, len, addrs) ==
    ResolveRange(cmp, 1, Len(cmp), ents, len, [addresses |-> addrs, panic |-> FALSE])

\* A group key is a tuple of cells, one per group column; a cell has a null
\* bit and a value (the value of a null cell is whatever the column holds).
Cell(v) == [null |-> FALSE, val |-> v]
NullCell(v) == [null |-> TRUE, val |-> v]

\* KeyEqual that compares the values and never looks at the null bits
KeyEqual_IgnoreNulls(a, b) ==
    \A c \in DOMAIN a : a[c].val = b[c].val

\* KeyCompare of two keys, column by column: null bits first (one null and
\* one not: unequal; both null: equal for this column), otherwise the values
KeyEqual(a, b) ==
    \A c \in DOMAIN a :
        IF a[c].null \/ b[c].null
        THEN a[c].null /\ b[c].null
        ELSE a[c].val = b[c].val

\* KeyCompare of one selected row against the row its address points at
MatchRow(acc, index, keys, addrs, pl) ==
    IF acc.panic THEN acc
    ELSE IF addrs[index + 1] = NULL
    THEN [acc EXCEPT !.panic = TRUE]                  \* null pointer read
    ELSE IF KeyEqual(pl[addrs[index + 1] + 1].key, keys[index + 1])
    THEN acc
    ELSE [acc EXCEPT !.no_match_vector = Append(@, index)]

RECURSIVE MatchRange(_,_,_,_,_,_,_)
MatchRange(sel, lo, hi, keys, addrs, pl, acc) ==
    IF ~Evaluated(acc) \/ lo > hi THEN acc
    ELSE IF lo = hi THEN MatchRow(acc, sel[lo], keys, addrs, pl)
    ELSE MatchRange(sel, (lo + hi) \div 2 + 1, hi, keys, addrs, pl,
             MatchRange(sel, lo, (lo + hi) \div 2, keys, addrs, pl, acc))

\* row_match_columns(group_columns, addresses, select_vector, count, ...,
\* no_match_vector, no_match_count): compares the first count rows of the
\* selection it is handed and appends the unequal ones to no_match_vector
row_match_columns(keys, addrs, sel, count, pl, nomatch) ==
    MatchRange(sel, 1, count, keys, addrs, pl,
               [no_match_vector |-> nomatch, panic |-> FALSE])

\* body of the for loop of lines 204-211, linear probing of one row
ProbeRow(offs, index, cap) ==
    [offs EXCEPT ![index + 1] = IF @ + 1 >= cap THEN 0 ELSE @ + 1]

RECURSIVE LinearProbeRange(_,_,_,_,_)
LinearProbeRange(nomatch, lo, hi, cap, offs) ==
    IF ~Evaluated(offs) \/ lo > hi THEN offs
    ELSE IF lo = hi THEN ProbeRow(offs, nomatch[lo], cap)
    ELSE LinearProbeRange(nomatch, (lo + hi) \div 2 + 1, hi, cap,
             LinearProbeRange(nomatch, lo, (lo + hi) \div 2, cap, offs))

LinearProbe(nomatch, offs, cap) ==
    LinearProbeRange(nomatch, 1, Len(nomatch), cap, offs)

\* ---------------------------------------------------------------- resize
\* fn resize_threshold: (capacity as f64 / LOAD_FACTOR) as usize
resize_threshold(cap) == (cap * LOAD_FACTOR_DEN) \div LOAD_FACTOR_NUM

\* the empty slots of the directory among the slots lo..hi
EmptySlots(ents, lo, hi) == {x \in lo..hi : ents[x + 1].page_nr = 0}

\* the while loop of lines 235-240: starting at hash_slot, step to the next
\* slot (back to 0 when the slot number reaches self.capacity, the capacity
\* before the resize) until a slot with page_nr = 0 is found.  The slots are
\* visited in the order hash_slot, ..., cap - 1, 0, ..., hash_slot - 1, so
\* the result is the first empty one in that order.  Result -1: the start
\* slot is past the end of the new directory; -2: no empty slot, the loop
\* never ends.
ResizeProbe(ents, hash_slot, cap) ==
    IF hash_slot >= Len(ents) THEN -1
    ELSE IF \E x \in hash_slot..(cap - 1) : ents[x + 1].page_nr = 0
    THEN Min(EmptySlots(ents, hash_slot, cap - 1))
    ELSE IF \E x \in 0..(hash_slot - 1) : ents[x + 1].page_nr = 0
    THEN Min(EmptySlots(ents, 0, hash_slot - 1))
    ELSE -2

\* ResizeStore with the page offset written without the modulo
ResizeStore_NoModulo(acc, row, hash, slot) ==
    IF slot = -1 THEN [acc EXCEPT !.fault = "panic"]
    ELSE IF slot = -2 THEN [acc EXCEPT !.fault = "hang"]
    ELSE [acc EXCEPT !.entries[slot + 1] =
             [page_nr     |-> (row \div row_per_page) + 1,
              page_offset |-> row,
              salt        |-> HashSalt(hash)]]

\* ResizeStore with a 0-based page number
ResizeStore_ZeroBasedPage(acc, row, hash, slot) ==
    IF slot = -1 THEN [acc EXCEPT !.fault = "panic"]
    ELSE IF slot = -2 THEN [acc EXCEPT !.fault = "hang"]
    ELSE [acc EXCEPT !.entries[slot + 1] =
             [page_nr     |-> row \div row_per_page,
              page_offset |-> row % row_per_page,
              salt        |-> HashSalt(hash)]]

\* lines 242-245: the entry written at the slot the loop stopped at
ResizeStore(acc, row, hash, slot) ==
    IF slot = -1 THEN [acc EXCEPT !.fault = "panic"]
    ELSE IF slot = -2 THEN [acc EXCEPT !.fault = "hang"]
    ELSE [acc EXCEPT !.entries[slot + 1] =
             [page_nr     |-> (row \div row_per_page) + 1,
              page_offset |-> row % row_per_page,
              salt        |-> HashSalt(hash)]]

\* body of the for loop of lines 230-246 for one payload row
ResizeRow(acc, row, pl, new_capacity, cap) ==
    IF acc.fault # "none" THEN acc
    ELSE ResizeStore(acc, row, pl[row + 1].hash,
             ResizeProbe(acc.entries, HashSlot(pl[row + 1].hash, new_capacity), cap))

RECURSIVE ResizeRange(_,_,_,_,_,_)
ResizeRange(lo, hi, pl, new_capacity, cap, acc) ==
    IF ~Evaluated(acc) \/ lo > hi THEN acc
    ELSE IF lo = hi THEN ResizeRow(acc, lo, pl, new_capacity, cap)
    ELSE ResizeRange((lo + hi) \div 2 + 1, hi, pl, new_capacity, cap,
             ResizeRange(lo, (lo + hi) \div 2, pl, new_capacity, cap, acc))

\* ResizeResult that forgets to store the new capacity
ResizeResult_KeepCapacity(ents, cap, pl, new_capacity, r) ==
    IF r.fault = "none"
    THEN [entries |-> r.entries, capacity |-> cap, payload |-> pl, fault |-> "none"]
    ELSE [entries |-> ents, capacity |-> cap, payload |-> pl, fault |-> r.fault]

\* ResizeResult that moves the last payload row to the front
ResizeResult_MoveRow(ents, cap, pl, new_capacity, r) ==
    IF r.fault = "none"
    THEN [entries |-> r.entries, capacity |-> new_capacity,
          payload |-> IF Len(pl) > 1
                      THEN <<pl[Len(pl)]>> \o SubSeq(pl, 1, Len(pl) - 1)
                      ELSE pl,
          fault |-> "none"]
    ELSE [entries |-> ents, capacity |-> cap, payload |-> pl, fault |-> r.fault]

\* lines 248-249: the new directory and the new capacity are stored (the
\* table is left as it was when the loop did not finish)
ResizeResult(ents, cap, pl, new_capacity, r) ==
    IF r.fault = "none"
    THEN [entries |-> r.entries, capacity |-> new_capacity, payload |-> pl,
          fault |-> "none"]
    ELSE [entries |-> ents, capacity |-> cap, payload |-> pl, fault |-> r.fault]

\* pub fn resize(&mut self, new_capacity): the new directory is allocated
\* with new_entries(self.capacity); the payload is only read
resize(ents, cap, pl, new_capacity) ==
    ResizeResult(ents, cap, pl, new_capacity,
        ResizeRange(0, Len(pl) - 1, pl, new_capacity, cap,
                    [entries |-> new_entries(cap), fault |-> "none"]))

\* GrowCapacity that grows to the first fitting size instead of doubling
GrowCapacity_Fit(new_capacity, len, row_count) ==
    IF new_capacity - len <= row_count
    THEN len + row_count + 1
    ELSE new_capacity

\* lines 121-125: double until new_capacity - len > row_count
RECURSIVE GrowCapacity(_,_,_)
GrowCapacity(new_capacity, len, row_count) ==
    IF new_capacity - len <= row_count
    THEN GrowCapacity(new_capacity * 2, len, row_count)
    ELSE new_capacity

\* the condition of line 120 without the load-factor test
NeedResize_NoThreshold(cap, len, row_count) ==
    cap - len <= row_count

\* the condition of line 120
NeedResize(cap, len, row_count) ==
    cap - len <= row_count \/ len > resize_threshold(cap)

\* ------------------------------------------------------------ probe loop
\* The state of one probe_and_create call is the record t: the table
\* (entries, capacity, payload), the ProbeState ps, the current selection
\* sel (select_vector and remaining_entries), new_group_count and fault.
ProbeDone(t) == Len(t.sel) = 0 \/ t.fault # "none"

\* lines 204-214: linear probing of the no-match rows and the swap of
\* select_vector and no_match_vector; m is the result of row_match_columns
SwapStep(t, m, cap) ==
    IF m.panic THEN [t EXCEPT !.fault = "panic"]
    ELSE [t EXCEPT !.ps.ht_offsets = LinearProbe(m.no_match_vector, @, cap),
                   !.sel = m.no_match_vector]

\* lines 190-201: row_match_columns is handed select_vector and
\* need_compare_count; r is the result of the address loop
CompareStep(t, c, r, keys, cap) ==
    IF r.panic THEN [t EXCEPT !.fault = "panic"]
    ELSE SwapStep([t EXCEPT !.ps.addresses = r.addresses],
                  row_match_columns(keys, r.addresses, t.sel,
                                    Len(c.group_compare_vector), t.payload,
                                    c.no_match_vector),
                  cap)

\* lines 180-188: the addresses of the rows of group_compare_vector; a is
\* the result of append_rows
AddressStep(t, c, a, keys, cap) ==
    CompareStep([t EXCEPT !.payload = a.payload, !.ps.addresses = a.addresses],
                c,
                ResolveAddresses(c.group_compare_vector, c.entries,
                                 Len(a.payload), a.addresses),
                keys, cap)

\* lines 168-177: append_rows is handed select_vector and new_entry_count;
\* c is the result of the classification
AppendStep(t, c, keys, hs, cap) ==
    IF c.panic THEN [t EXCEPT !.fault = "panic"]
    ELSE AddressStep(t, c,
             IF Len(c.empty_vector) # 0
             THEN append_rows(t.payload, t.ps.addresses, hs, t.sel,
                              Len(c.empty_vector), keys)
             ELSE [payload |-> t.payload, addresses |-> t.ps.addresses],
             keys, cap)

\* lines 143-166 and 177: the classification has written the directory, and
\* new_group_count grows by new_entry_count
ClassifyStep(t, c, keys, hs, cap) ==
    AppendStep([t EXCEPT !.entries = c.entries,
                         !.new_group_count = @ + Len(c.empty_vector)],
               c, keys, hs, cap)

\* one pass of the body of the while loop of lines 137-215
ProbeStep(t, keys, hs, cap) ==
    ClassifyStep(t, Classify(t.sel, t.ps, t.entries), keys, hs, cap)

\* up to 2^k passes of the while loop, stopping when remaining_entries = 0
RECURSIVE ProbeRun(_,_,_,_,_)
ProbeRun(t, k, keys, hs, cap) ==
    IF ProbeDone(t) THEN t
    ELSE IF k = 0 THEN ProbeStep(t, keys, hs, cap)
    ELSE ProbeRun(ProbeRun(t, k - 1, keys, hs, cap), k - 1, keys, hs, cap)

\* the least k with 2^k > 2 * cap
PassBits(cap) ==
    CHOOSE e \in 0..24 : Pow2(e) > 2 * cap /\ (e = 0 \/ Pow2(e - 1) <= 2 * cap)

\* a loop still running after more than 2 * capacity passes never ends
HangCheck(t) == IF ProbeDone(t) THEN t ELSE [t EXCEPT !.fault = "hang"]

\* the while loop of lines 137-215
ProbeLoop(t, keys, hs, cap) ==
    HangCheck(ProbeRun(t, PassBits(cap), keys, hs, cap))

\* lines 120-126: the capacity check; capacity - len underflows when
\* len > capacity
CheckCapacity(ents, cap, pl, row_count) ==
    IF Len(pl) > cap
    THEN [entries |-> ents, capacity |-> cap, payload |-> pl, fault |-> "panic"]
    ELSE IF NeedResize(cap, Len(pl), row_count)
    THEN resize(ents, cap, pl, GrowCapacity(cap * 2, Len(pl), row_count))
    ELSE [entries |-> ents, capacity |-> cap, payload |-> pl, fault |-> "none"]

\* ProbeStart with new_group_count starting at 1
ProbeStart_CountFromOne(rz, keys, hs) ==
    ProbeLoop([entries |-> rz.entries, capacity |-> rz.capacity,
               payload |-> rz.payload,
               ps |-> ajust_group_columns(hs, Len(keys), rz.capacity),
               sel |-> auto_increment(Len(keys)),
               new_group_count |-> 1, fault |-> rz.fault],
              keys, hs, rz.capacity)

\* lines 129-136: hashes, ajust_group_columns, the initial selection; rz is
\* the table after the capacity check
ProbeStart(rz, keys, hs) ==
    ProbeLoop([entries |-> rz.entries, capacity |-> rz.capacity,
               payload |-> rz.payload,
               ps |-> ajust_group_columns(hs, Len(keys), rz.capacity),
               sel |-> auto_increment(Len(keys)),
               new_group_count |-> 0, fault |-> rz.fault],
              keys, hs, rz.capacity)

\* fn probe_and_create(&mut self, state, group_columns, row_count) -> usize
probe_and_create(ents, cap, pl, keys) ==
    ProbeStart(CheckCapacity(ents, cap, pl, Len(keys)), keys, hashes(Len(keys)))

\* ------------------------------------------------------------ aggregate
\* NumberSumState::add: self.value += other
SumAdd(value, other) == value + other

\* SUM over a number column: NumberSumState, whose add never fails
NumberSum == [kind |-> "number", width |-> 64, precision |-> 0, OVERFLOW |-> FALSE]

\* try_create_aggregate_sum_function for an argument of type
\* Decimal128(precision, _) (width 128) or Decimal256(precision, _) (width
\* 256): let overflow = s.precision > 18; if overflow the state is
\* DecimalSumState<false, _>, else DecimalSumState<true, _>
try_create_aggregate_sum_function(width, precision) ==
    [kind |-> "decimal", width |-> width, precision |-> precision,
     OVERFLOW |-> ~(precision > 18)]

\* T::Scalar::MAX and T::Scalar::MIN of the decimal type, in model units
MAX == DecimalMax
MIN == -DecimalMax

\* the value v is outside [MIN, MAX]
OutOfRange(v) == v > MAX \/ v < MIN

\* DecimalSumState::add: self.value += other, then, if OVERFLOW, the range
\* test; the state keeps the new value also when the test fails
DecimalSumAdd(value, other, OVERFLOW) ==
    [value |-> value + other, err |-> OVERFLOW /\ OutOfRange(value + other)]

\* DecimalSumState::merge: self.add(rhs.value)
DecimalSumMerge(value, rhs, OVERFLOW) == DecimalSumAdd(value, rhs, OVERFLOW)

\* add of the state of the aggregate a
StateAdd(a, value, other) ==
    IF a.kind = "number" THEN [value |-> SumAdd(value, other), err |-> FALSE]
    ELSE DecimalSumAdd(value, other, a.OVERFLOW)

\* the state of payload row r (1-based) becomes the result res of add
AccumulateStore(acc, r, res) ==
    [payload |-> [acc.payload EXCEPT ![r].sum = res.value], err |-> res.err]

\* accumulate_keys for one row of the batch: add its value to its state
\* place; the rows after a failed add are not visited
AccumulateRow(acc, i, places, vals, a) ==
    IF acc.err THEN acc
    ELSE AccumulateStore(acc, places[i] + 1,
             StateAdd(a, acc.payload[places[i] + 1].sum, vals[i]))

RECURSIVE AccumulateRange(_,_,_,_,_,_)
AccumulateRange(lo, hi, places, vals, a, acc) ==
    IF ~Evaluated(acc) \/ lo > hi THEN acc
    ELSE IF lo = hi THEN AccumulateRow(acc, lo, places, vals, a)
    ELSE AccumulateRange((lo + hi) \div 2 + 1, hi, places, vals, a,
             AccumulateRange(lo, (lo + hi) \div 2, places, vals, a, acc))

\* accumulate_keys(state_places, offset, column, row_count) -> Result<()>
accumulate_keys(pl, places, vals, a) ==
    AccumulateRange(1, Len(vals), places, vals, a, [payload |-> pl, err |-> FALSE])

\* line 109: the ? operator returns the error of accumulate_keys; the
\* payload keeps what the aggregate wrote before it failed
AccumulateResult(p, r) ==
    [p EXCEPT !.payload = r.payload, !.fault = IF r.err THEN "error" ELSE "none"]

\* Accumulate that runs the aggregate over the rows with an address although
\* the probe loop was left before every row was placed
Accumulate_Early(p, vals, a) ==
    IF p.fault # "none"
    THEN [p EXCEPT !.payload =
             [r \in 1..Len(p.payload) |->
                 [p.payload[r] EXCEPT !.sum =
                     IF \E i \in 1..Len(p.ps.addresses) : p.ps.addresses[i] = r - 1
                     THEN StateAdd(a, @, vals[1]).value ELSE @]]]
    ELSE AccumulateResult(p, accumulate_keys(p.payload, p.ps.addresses, vals, a))

\* lines 88-110: state_places are the addresses left by probe_and_create (a
\* null one is dereferenced), every aggregate accumulates its column
Accumulate(p, vals, a) ==
    IF p.fault # "none" THEN p
    ELSE IF \E i \in 1..Len(vals) : p.ps.addresses[i] = NULL
    THEN [p EXCEPT !.fault = "panic"]
    ELSE AccumulateResult(p, accumulate_keys(p.payload, p.ps.addresses, vals, a))

\* lines 88-95 alone: the state places are read from the addresses
StatePlaces(p, row_count) ==
    IF p.fault # "none" THEN p
    ELSE IF \E i \in 1..row_count : p.ps.addresses[i] = NULL
    THEN [p EXCEPT !.fault = "panic"]
    ELSE p

\* lines 97-110: the aggregates are zipped with params, so the loop runs
\* for min(aggrs.len(), params.len()) pairs; the table has one aggregate,
\* which accumulates the first list of params if there is one
ZipAccumulate(p, params, row_count, a) ==
    IF Len(params) = 0 THEN StatePlaces(p, row_count)
    ELSE Accumulate(p, params[1], a)

\* pub fn add_groups(&mut self, state, group_columns, params, row_count)
\* for a table whose aggregate is a, called with the lists params of
\* argument columns; fault "error" is the Err it returns
add_groups_params(ents, cap, pl, keys, params, a) ==
    ZipAccumulate(probe_and_create(ents, cap, pl, keys), params, Len(keys), a)

\* add_groups called with one list of argument columns, the column vals
add_groups(ents, cap, pl, keys, vals, a) ==
    add_groups_params(ents, cap, pl, keys, <<vals>>, a)

\* the states of one aggregate for the rows 0..n: those of sums, and the
\* initial state (SUM: 0) for the rows append_rows has added since
InitStates(sums, n) == [r \in 1..n |-> IF r <= Len(sums) THEN sums[r] ELSE 0]

\* the rows of the payload pl with the states sums of another aggregate (the
\* same state places read at its state_addr_offset)
WithSums(pl, sums) == [r \in 1..Len(pl) |-> [pl[r] EXCEPT !.sum = sums[r]]]

SumsOf(pl) == [r \in 1..Len(pl) |-> pl[r].sum]

\* line 109 for the second aggregate: r is the result of its
\* accumulate_keys
SecondResult(p, r) ==
    [table |-> [p EXCEPT !.fault = IF r.err THEN "error" ELSE "none"],
     sums2 |-> SumsOf(r.payload)]

\* AccumulateSecond that goes on to the second aggregate after the first one
\* failed
AccumulateSecond_AfterError(p, sums2, vals2, a2) ==
    IF p.fault \notin {"none", "error"}
    THEN [table |-> p, sums2 |-> InitStates(sums2, Len(p.payload))]
    ELSE [table |-> p,
          sums2 |-> SumsOf(accumulate_keys(
                        WithSums(p.payload, InitStates(sums2, Len(p.payload))),
                        p.ps.addresses, vals2, a2).payload)]

\* the second turn of the loop of lines 97-110; p is the table after the
\* first turn: the loop is left by the ? of line 109 when the first
\* aggregate failed, and is not reached when the call panicked
AccumulateSecond(p, sums2, vals2, a2) ==
    IF p.fault # "none"
    THEN [table |-> p, sums2 |-> InitStates(sums2, Len(p.payload))]
    ELSE SecondResult(p, accumulate_keys(
                             WithSums(p.payload, InitStates(sums2, Len(p.payload))),
                             p.ps.addresses, vals2, a2))

\* add_groups for a table with the two aggregates a1 and a2, called with one
\* argument column for each (vals1, vals2); sums2 are the states of a2
add_groups_two(ents, cap, pl, sums2, keys, vals1, vals2, a1, a2) ==
    AccumulateSecond(Accumulate(probe_and_create(ents, cap, pl, keys), vals1, a1),
                     sums2, vals2, a2)

\* NumberSumState::merge: self.value += rhs.value
SumMerge(value, rhs) == value + rhs

\* combine that moves the rows of other to the end of self
combine_TakeRows(self, o) ==
    [self  |-> [self EXCEPT !.payload = @ \o o.payload],
     other |-> [o EXCEPT !.payload = <<>>]]

\* combine that copies the first row of other to the end of self
combine_FirstRow(self, o) ==
    [self  |-> IF o.payload = <<>> THEN self
               ELSE [self EXCEPT !.payload = Append(@, o.payload[1])],
     other |-> o]

\* pub fn combine(&mut self, other: &Self) {}: the body is empty, and other
\* is borrowed immutably
combine(self, o) == [self |-> self, other |-> o]

\* aggr.drop_state(state of the row): one more call for this row
drop_state(counts, row) == [counts EXCEPT ![row + 1] = @ + 1]

RECURSIVE DropRange(_,_,_)
DropRange(lo, hi, counts) ==
    IF ~Evaluated(counts) \/ lo > hi THEN counts
    ELSE IF lo = hi THEN drop_state(counts, lo)
    ELSE DropRange((lo + hi) \div 2 + 1, hi,
             DropRange(lo, (lo + hi) \div 2, counts))

\* drop that starts its sweep at row 1
drop_SkipFirstRow(pl, need) ==
    IF need
    THEN DropRange(1, Len(pl) - 1, [r \in 1..Len(pl) |-> 0])
    ELSE [r \in 1..Len(pl) |-> 0]

\* impl Drop for AggregateHashTable, for the one aggregate of the table: if
\* it needs a manual drop, drop_state is called for the rows 0..len
drop(pl, need) ==
    IF need
    THEN DropRange(0, Len(pl) - 1, [r \in 1..Len(pl) |-> 0])
    ELSE [r \in 1..Len(pl) |-> 0]

\* the finalization sweep: rows 0..len in payload order, one output tuple
\* per row (the group key, then the finalized SUM state)
finalize_into(pl) == [r \in 1..Len(pl) |-> [key |-> pl[r].key, value |-> pl[r].sum]]

\* finalize(state, builder) of the aggregate for every row of the sweep: if
\* the aggregate needs a manual drop, finalize is also the destructor and
\* releases the state of the row (one more release for it)
finalize(counts, need) ==
    [r \in DOMAIN counts |-> IF need THEN counts[r] + 1 ELSE counts[r]]

\* ----------------------------------------------------------------- inputs
SmallKeys == 1..SmallKeyCount

\* the key of a row with one non-null group column of value k
Key1(k) == <<Cell(k)>>

\* a batch with one non-null group column ks and one argument column vs
Batch(ks, vs) == [keys |-> [i \in DOMAIN ks |-> Key1(ks[i])], vals |-> vs]

\* the key with every null cell's value set to 0
Canon(key) == [c \in DOMAIN key |-> IF key[c].null THEN NullCell(0) ELSE key[c]]

\* a batch with two nullable group columns: rows are the keys of its rows
NullBatch(rows, vs) == [keys |-> rows, vals |-> vs]

\* the cells of a nullable column: the value 1, and null over the values 0, 1
NullableCells == {Cell(1), NullCell(0), NullCell(1)}
NullRowBatches == {NullBatch(<<(<<a, b>>)>>, <<1>>) : a \in {Cell(1), NullCell(0)}, b \in NullableCells}
\* rows [(1,null),(1,null),(1,1),(null,null),(null,null)] counted with SUM(1)
NullScenario ==
    NullBatch(<< <<Cell(1), NullCell(0)>>, <<Cell(1), NullCell(1)>>,
                 <<Cell(1), Cell(1)>>, <<NullCell(0), NullCell(0)>>,
                 <<NullCell(1), NullCell(0)>> >>,
              <<1, 1, 1, 1, 1>>)

EmptyBatch == Batch(<<>>, <<>>)
RowBatches == {Batch(<<k>>, <<1>>) : k \in SmallKeys}
PairBatches == {Batch(<<k1, k2>>, <<1, 2>>) : k1 \in SmallKeys, k2 \in SmallKeys}
\* groups [1,2,1,3,2,1] with values [10,20,30,40,50,60]
SumScenario == Batch(<<1, 2, 1, 3, 2, 1>>, <<10, 20, 30, 40, 50, 60>>)
\* 200 pairwise distinct keys in one batch
ForcedResize == Batch([i \in 1..ForcedRows |-> i], [i \in 1..ForcedRows |-> 1])

\* a batch larger than the initial capacity (all rows of one group)
Oversize == Batch([i \in 1..(2 * InitialCapacity) |-> 1],
                  [i \in 1..(2 * InitialCapacity) |-> 1])

BulkBatches == PairBatches \cup {SumScenario, ForcedResize, Oversize}

\* decimal argument types: the precisions around the test of
\* try_create_aggregate_sum_function and the ends of both widths
DecimalSums ==
    {try_create_aggregate_sum_function(128, p) : p \in {1, 18, 19, 38}}
        \cup {try_create_aggregate_sum_function(256, p) : p \in {1, 18, 19, 76}}

DecimalVals == {DecimalStep, -DecimalStep}
DecimalRowBatches == {Batch(<<k>>, <<v>>) : k \in SmallKeys, v \in DecimalVals}
\* three rows of value DecimalStep: the third one of a group overflows
DecimalBulkBatches ==
    {Batch(<<k1, k2, k3>>, <<DecimalStep, DecimalStep, DecimalStep>>) :
        k1 \in SmallKeys, k2 \in SmallKeys, k3 \in SmallKeys}

\* a one-row batch handed to add_groups with `lists` lists of argument
\* columns (each list is the column vs) for the one aggregate of the table
MismatchBatch(ks, vs, lists) ==
    [keys |-> [i \in DOMAIN ks |-> Key1(ks[i])], vals |-> vs, lists |-> lists]
MismatchBatches == {MismatchBatch(<<k>>, <<1>>, n) : k \in SmallKeys, n \in {0, 2}}

\* a batch for a table with two aggregates: every row has group key k, the
\* value v1 for the first aggregate and v2 for the second
TwoBatch(k, n, v1, v2) ==
    [keys |-> [i \in 1..n |-> Key1(k)], vals |-> [i \in 1..n |-> v1],
     vals2 |-> [i \in 1..n |-> v2]]

\* one and two rows; one of the two aggregates is fed the large value
TwoBatches ==
    {TwoBatch(k, n, v[1], v[2]) :
        k \in SmallKeys, n \in {1, 2}, v \in {<<1, DecimalStep>>, <<DecimalStep, 1>>}}

\* the params argument of the add_groups call for batch b
Params(b) ==
    IF "lists" \in DOMAIN b THEN [i \in 1..b.lists |-> b.vals] ELSE <<b.vals>>

\* the sum of the values the rows lo..hi of batch b feed for key k
RECURSIVE FedRange(_,_,_,_)
FedRange(b, k, lo, hi) ==
    IF lo > hi THEN 0
    ELSE IF lo = hi THEN (IF KeyEqual(b.keys[lo], k) THEN b.vals[lo] ELSE 0)
    ELSE LET mid == (lo + hi) \div 2 IN
         FedRange(b, k, lo, mid) + FedRange(b, k, mid + 1, hi)

FedFor(b, k) == FedRange(b, k, 1, Len(b.keys))

\* ------------------------------------------------------------------ state
VARIABLES
    entries,     \* AggregateHashTable.entries
    capacity,    \* AggregateHashTable.capacity
    payload,     \* the payload rows: [key, hash, sum]
    status,      \* "ok", "panicked" (the call unwound), "hung", "finalized"
                 \* or "dropped"
    batch,       \* the batch of the last add_groups call
    ret,         \* its return value (-1: it did not return)
    expected,    \* per key fed by a call that returned, the sum of its values
    calls,       \* number of non-empty add_groups calls
    bulks,       \* number of them with more than one row
    hits,        \* number of one-row calls that created no group
    resizes,     \* number of direct resize calls
    other,       \* a second table (NoTable when the program has one table)
    merges,      \* number of combine calls
    need_drop,   \* need_manual_drop_state() of the aggregate
    aggr,        \* the aggregate of the first table
    second,      \* the second aggregate of the first table, if it has one,
                 \* and its state per payload row
    drops        \* per payload row, the number of releases of its state

vars == <<entries, capacity, payload, status, batch, ret, expected, calls,
          bulks, hits, resizes, other, merges, need_drop, aggr, second, drops>>

\* a table with one aggregate has no second aggregate
NoSecond == [aggr |-> NumberSum, present |-> FALSE, sums |-> <<>>]

\* a table as a value: its fields, what became of the last call on it, and
\* the number of non-empty batches it was fed
Table(ents, cap, pl, st, n) ==
    [entries |-> ents, capacity |-> cap, payload |-> pl, status |-> st, calls |-> n]

NoTable == Table(<<>>, 0, <<>>, "absent", 0)

\* AggregateHashTable::new as a value
NewTable == Table(new_entries(InitialCapacity), InitialCapacity, <<>>, "ok", 0)

\* AggregateHashTable::new
Init ==
    /\ capacity = InitialCapacity
    /\ entries = new_entries(InitialCapacity)
    /\ payload = <<>>
    /\ status = "ok"
    /\ batch = EmptyBatch
    /\ ret = 0
    /\ expected = <<>>
    /\ calls = 0
    /\ bulks = 0
    /\ hits = 0
    /\ resizes = 0
    /\ other = NoTable
    /\ merges = 0
    /\ need_drop = FALSE
    /\ aggr = NumberSum
    /\ second = NoSecond
    /\ drops = <<>>

\* a new table whose aggregate may own resources (need_manual_drop_state)
InitDrop ==
    /\ capacity = InitialCapacity
    /\ entries = new_entries(InitialCapacity)
    /\ payload = <<>>
    /\ status = "ok"
    /\ batch = EmptyBatch
    /\ ret = 0
    /\ expected = <<>>
    /\ calls = 0
    /\ bulks = 0
    /\ hits = 0
    /\ resizes = 0
    /\ other = NoTable
    /\ merges = 0
    /\ need_drop \in BOOLEAN
    /\ aggr = NumberSum
    /\ second = NoSecond
    /\ drops = <<>>

\* a new table with one SUM aggregate over a decimal column
InitDecimal ==
    /\ capacity = InitialCapacity
    /\ entries = new_entries(InitialCapacity)
    /\ payload = <<>>
    /\ status = "ok"
    /\ batch = EmptyBatch
    /\ ret = 0
    /\ expected = <<>>
    /\ calls = 0
    /\ bulks = 0
    /\ hits = 0
    /\ resizes = 0
    /\ other = NoTable
    /\ merges = 0
    /\ need_drop = FALSE
    /\ aggr \in DecimalSums
    /\ second = NoSecond
    /\ drops = <<>>

\* two tables, both new
InitTwo ==
    /\ capacity = InitialCapacity
    /\ entries = new_entries(InitialCapacity)
    /\ payload = <<>>
    /\ status = "ok"
    /\ batch = EmptyBatch
    /\ ret = 0
    /\ expected = <<>>
    /\ calls = 0
    /\ bulks = 0
    /\ hits = 0
    /\ resizes = 0
    /\ other = NewTable
    /\ merges = 0
    /\ need_drop = FALSE
    /\ aggr = NumberSum
    /\ second = NoSecond
    /\ drops = <<>>

\* a call that returns Ok or Err leaves a table that can be used again
StatusOf(fault) ==
    IF fault \in {"none", "error"} THEN "ok"
    ELSE IF fault = "panic" THEN "panicked" ELSE "hung"

\* what the caller of add_groups sees: Ok(new_group_count), -2 for Err, -1
\* when the call does not return
RetOf(r) ==
    IF r.fault = "none" THEN r.new_group_count
    ELSE IF r.fault = "error" THEN -2 ELSE -1

Expect(e, k) == IF k \in DOMAIN e THEN e[k] ELSE 0

\* the number of non-empty add_groups calls a behaviour is followed for
CallBound(short) == IF short THEN MaxShortCalls ELSE MaxCalls

\* a key that no earlier batch held: the r-th row created this way holds the
\* key SmallKeyCount + r
FreshKey(pl) == Key1(SmallKeyCount + Len(pl) + 1)

\* every row of the payload pl was created by a one-row batch of a fresh key
AllFresh(pl) == \A r \in 1..Len(pl) : pl[r].key = Key1(SmallKeyCount + r)

\* the table t after one add_groups call with batch b; r is the result of
\* add_groups
FedResult(t, b, r) ==
    Table(r.entries, r.capacity, r.payload, StatusOf(r.fault),
          IF Len(b.keys) > 0 THEN t.calls + 1 ELSE t.calls)

\* add_groups with batch b on the table value t
Fed(t, b) ==
    IF t.status # "ok" THEN t
    ELSE FedResult(t, b, add_groups(t.entries, t.capacity, t.payload, b.keys, b.vals, NumberSum))

\* one add_groups call with batch b on the first table
AddSelf(b) ==
    /\ status = "ok"
    /\ Len(b.keys) > 0 =>
          calls < CallBound(bulks > 0 \/ resizes > 0 \/ Len(b.keys) > 1
                            \/ Len(b.keys[1]) > 1 \/ other.status # "absent"
                            \/ b.keys[1] # FreshKey(payload)
                            \/ ~AllFresh(payload))
    /\ \E r \in {add_groups_params(entries, capacity, payload, b.keys, Params(b), aggr)} :
       /\ Len(b.keys) = 1 /\ r.fault = "none" /\ r.new_group_count = 0
             => hits < MaxHits
       /\ hits' = IF Len(b.keys) = 1 /\ r.fault = "none" /\ r.new_group_count = 0
                  THEN hits + 1 ELSE hits
       /\ entries' = r.entries
       /\ capacity' = r.capacity
       /\ payload' = r.payload
       /\ status' = StatusOf(r.fault)
       /\ ret' = RetOf(r)
       /\ expected' = IF r.fault = "none"
                      THEN [k \in (DOMAIN expected) \cup {Canon(x) : x \in Range(b.keys)} |->
                               Expect(expected, k) + FedFor(b, k)]
                      ELSE expected
    /\ batch' = b
    /\ calls' = IF Len(b.keys) > 0 THEN calls + 1 ELSE calls
    /\ bulks' = IF Len(b.keys) > 1 THEN bulks + 1 ELSE bulks
    /\ UNCHANGED <<aggr, second, resizes, merges, need_drop, drops>>

\* one add_groups call with batch b
AddGroups(b) == AddSelf(b) /\ UNCHANGED other

\* the same batch fed to both tables, one add_groups call on each
AddBothCall(b) == AddSelf(b) /\ other' = Fed(other, b)

\* one direct call of the public resize
ResizeCall(new_capacity) ==
    /\ status = "ok"
    /\ resizes < MaxResizeCalls
    /\ calls < MaxShortCalls
    /\ \E r \in {resize(entries, capacity, payload, new_capacity)} :
       /\ entries' = r.entries
       /\ capacity' = r.capacity
       /\ payload' = r.payload
       /\ status' = StatusOf(r.fault)
    /\ resizes' = resizes + 1
    /\ UNCHANGED <<aggr, second, batch, ret, expected, calls, bulks, hits, other, merges,
                   need_drop, drops>>

AddRow == \E b \in RowBatches \cup {EmptyBatch} : AddGroups(b)
AddBulk == \E b \in BulkBatches : AddGroups(b)
Resize == \E c \in {capacity, 2 * capacity} : ResizeCall(c)

\* a one-row batch with a key that is new to the table
AddFresh == AddGroups(Batch(<<SmallKeyCount + Len(payload) + 1>>, <<1>>))

Next == AddRow \/ AddBulk \/ AddFresh

Spec == Init /\ [][Next]_vars

AddMismatch == \E b \in MismatchBatches : AddGroups(b)

\* a table whose caller passes the wrong number of argument-column lists
NextParams == AddRow \/ AddMismatch

SpecParams == Init /\ [][NextParams]_vars

AddDecimalRow == \E b \in DecimalRowBatches : AddGroups(b)
AddDecimalBulk == \E b \in DecimalBulkBatches : AddGroups(b)

\* a table with a decimal SUM
NextDecimal == AddDecimalRow \/ AddDecimalBulk \/ AddFresh

SpecDecimal == InitDecimal /\ [][NextDecimal]_vars

AddNullRow == \E b \in NullRowBatches : AddGroups(b)
AddNullBulk == AddGroups(NullScenario)

\* a table with two nullable group columns
NextNull == AddNullRow \/ AddNullBulk

SpecNull == Init /\ [][NextNull]_vars

\* one-row batches for the second table: keys 2 .. SmallKeyCount + 1
OtherBatches == {Batch(<<k + 1>>, <<1>>) : k \in SmallKeys}

\* the first table as a value
SelfTable == Table(entries, capacity, payload, status, calls)

\* one add_groups call on the second table
AddOther ==
    /\ other.status = "ok"
    /\ other.calls < MaxOtherCalls
    /\ \E b \in OtherBatches : other' = Fed(other, b)
    /\ UNCHANGED <<aggr, second, entries, capacity, payload, status, batch, ret, expected,
                   calls, bulks, hits, resizes, merges, need_drop, drops>>

\* self.combine(&other)
Combine ==
    /\ status = "ok"
    /\ other.status = "ok"
    /\ merges < MaxMerges
    /\ \E r \in {combine(SelfTable, other)} :
       /\ entries' = r.self.entries
       /\ capacity' = r.self.capacity
       /\ payload' = r.self.payload
       /\ status' = r.self.status
       /\ other' = r.other
    /\ merges' = merges + 1
    /\ UNCHANGED <<aggr, second, batch, ret, expected, calls, bulks, hits, resizes,
                   need_drop, drops>>

\* the releases made so far for the rows of the payload pl
Released(pl, counts) ==
    [r \in 1..Len(pl) |-> IF r \in DOMAIN counts THEN counts[r] ELSE 0]

\* the table is dropped (by its owner, or while a panic unwinds)
Drop ==
    /\ status \in {"ok", "panicked", "finalized"}
    /\ status' = "dropped"
    /\ drops' = [r \in 1..Len(payload) |->
                    Released(payload, drops)[r] + drop(payload, need_drop)[r]]
    /\ UNCHANGED <<aggr, second, entries, capacity, payload, batch, ret, expected, calls,
                   bulks, hits, resizes, other, merges, need_drop>>

\* a full finalize: the sweep over the rows 0..len
Finalize ==
    /\ status = "ok"
    /\ status' = "finalized"
    /\ ret' = Len(finalize_into(payload))
    /\ drops' = finalize(Released(payload, drops), need_drop)
    /\ UNCHANGED <<aggr, second, entries, capacity, payload, batch, expected, calls,
                   bulks, hits, resizes, other, merges, need_drop>>

\* a table that is fed, finalized or not, and dropped
NextLife == AddRow \/ AddFresh \/ Finalize \/ Drop

SpecLife == InitDrop /\ [][NextLife]_vars

\* a table that is fed and dropped without finalize
NextDrop == AddRow \/ AddBulk \/ AddFresh \/ Drop

SpecDrop == InitDrop /\ [][NextDrop]_vars

\* two tables fed separately and merged
NextMerge == AddRow \/ AddOther \/ Combine

SpecMerge == InitTwo /\ [][NextMerge]_vars

AddBoth == \E b \in RowBatches \cup PairBatches \cup {EmptyBatch} : AddBothCall(b)

\* two tables fed the same batches; the first is also resized directly
NextTwin == AddBoth \/ Resize

SpecTwin == InitTwo /\ [][NextTwin]_vars

\* two tables fed the same one-row batches; the first is also resized and
\* merged with the second
AddBothRow == \E b \in RowBatches : AddBothCall(b)

NextMutate == AddBothRow \/ Resize \/ Combine

SpecMutate == InitTwo /\ [][NextMutate]_vars

\* a table fed one-row and two-row batches over the small keys
AddPair == \E b \in PairBatches : AddGroups(b)

NextProbe == AddRow \/ AddPair

SpecProbe == Init /\ [][NextProbe]_vars

\* the table t after the one-row add_groups calls with the fresh keys
\* SmallKeyCount + lo, ..., SmallKeyCount + hi, in that order
RECURSIVE FedFreshRange(_,_,_)
FedFreshRange(t, lo, hi) ==
    IF ~Evaluated(t) \/ lo > hi THEN t
    ELSE IF lo = hi THEN Fed(t, Batch(<<SmallKeyCount + lo>>, <<1>>))
    ELSE FedFreshRange(FedFreshRange(t, lo, (lo + hi) \div 2),
                       (lo + hi) \div 2 + 1, hi)

\* a new table after FullRows one-row add_groups calls, each with a key
\* that no earlier call held
FullTable == FedFreshRange(NewTable, 1, FullRows)

\* the program after those calls; calls, bulks, hits and resizes count what
\* follows
InitFull ==
    /\ \E t \in {FullTable} :
          /\ capacity = t.capacity
          /\ entries = t.entries
          /\ payload = t.payload
          /\ status = t.status
          /\ expected = [k \in {t.payload[r].key : r \in 1..Len(t.payload)} |-> 1]
    /\ batch = Batch(<<SmallKeyCount + FullRows>>, <<1>>)
    /\ ret = 1
    /\ calls = 0
    /\ bulks = 0
    /\ hits = 0
    /\ resizes = 0
    /\ other = NoTable
    /\ merges = 0
    /\ need_drop = FALSE
    /\ aggr = NumberSum
    /\ second = NoSecond
    /\ drops = <<>>

\* a table filled up to its initial capacity, fed further and resized
NextFull == AddRow \/ AddFresh \/ Resize

SpecFull == InitFull /\ [][NextFull]_vars

\* a new table with two SUM aggregates over decimal columns, both with the
\* overflow check
InitMulti ==
    /\ capacity = InitialCapacity
    /\ entries = new_entries(InitialCapacity)
    /\ payload = <<>>
    /\ status = "ok"
    /\ batch = EmptyBatch
    /\ ret = 0
    /\ expected = <<>>
    /\ calls = 0
    /\ bulks = 0
    /\ hits = 0
    /\ resizes = 0
    /\ other = NoTable
    /\ merges = 0
    /\ need_drop = FALSE
    /\ aggr = try_create_aggregate_sum_function(128, 18)
    /\ second = [aggr |-> try_create_aggregate_sum_function(128, 18),
                 present |-> TRUE, sums |-> <<>>]
    /\ drops = <<>>

\* one add_groups call with batch b on a table with two aggregates
AddTwo(b) ==
    /\ status = "ok"
    /\ second.present
    /\ calls < MaxShortCalls
    /\ \E r \in {add_groups_two(entries, capacity, payload, second.sums, b.keys,
                                 b.vals, b.vals2, aggr, second.aggr)} :
       /\ entries' = r.table.entries
       /\ capacity' = r.table.capacity
       /\ payload' = r.table.payload
       /\ status' = StatusOf(r.table.fault)
       /\ ret' = RetOf(r.table)
       /\ second' = [second EXCEPT !.sums = r.sums2]
       /\ expected' = IF r.table.fault = "none"
                      THEN [k \in (DOMAIN expected) \cup {Canon(x) : x \in Range(b.keys)} |->
                               Expect(expected, k) + FedFor(b, k)]
                      ELSE expected
    /\ batch' = b
    /\ calls' = calls + 1
    /\ bulks' = IF Len(b.keys) > 1 THEN bulks + 1 ELSE bulks
    /\ UNCHANGED <<aggr, hits, resizes, other, merges, need_drop, drops>>

AddMulti == \E b \in TwoBatches : AddTwo(b)

SpecMulti == InitMulti /\ [][AddMulti]_vars

NextResize == AddRow \/ AddFresh \/ Resize

SpecResize == Init /\ [][NextResize]_vars

TypeOK ==
    /\ status \in {"ok", "panicked", "hung", "finalized", "dropped"}
    /\ capacity \in Nat
    /\ ret \in -2..(2 * InitialCapacity)

\* ------------------------------------------------------------ properties
len == Len(payload)

Rows == 0..(len - 1)

Returned == status = "ok"

\* the payload row a directory entry refers to
RowOf(e) == (e.page_nr - 1) * row_per_page + e.page_offset

\* the directory slots whose entry refers to payload row r
Refs(r) ==
    {s \in 1..Len(entries) :
        /\ entries[s].page_nr # 0
        /\ entries[s].page_nr - 1 = r \div row_per_page
        /\ entries[s].page_offset = r % row_per_page}

\* the payload rows that hold group key k
RowsOf(pl, k) == {r \in 1..Len(pl) : KeyEqual(pl[r].key, k)}

\* a step of add_groups (every other step of the model is a resize call)
AddStep == resizes' = resizes
ResizeStep == resizes' = resizes + 1

\* C1: after add_groups returns, every payload row is referenced by exactly
\* one directory entry.
C1_OneEntryPerRow ==
    Returned => \A r \in Rows : Cardinality(Refs(r)) = 1

\* C2: after add_groups or resize returns, every non-empty directory entry
\* refers to an existing payload row and its salt is the high 16 bits of the
\* hash stored in that row.
C2_EntriesValid ==
    Returned =>
        \A s \in 1..Len(entries) :
            entries[s].page_nr # 0 =>
                /\ entries[s].page_nr - 1 < NumPages(len)
                /\ entries[s].page_offset < row_per_page
                /\ RowOf(entries[s]) \in Rows
                /\ entries[s].salt = HashSalt(payload[RowOf(entries[s]) + 1].hash)

\* a table with several rows whose directory was rebuilt by a resize and
\* then extended by add_groups
C2_Witness ==
    /\ Returned
    /\ capacity > InitialCapacity
    /\ len > row_per_page
    /\ \E s \in 1..Len(entries) : entries[s].page_nr # 0 /\ RowOf(entries[s]) > 0
    /\ Cardinality({s \in 1..Len(entries) : entries[s].page_nr # 0}) = len
    /\ ret = 1

\* C3: group uniqueness: no two payload rows hold equal group keys.
C3_GroupUniqueness ==
    Returned =>
        \A r1, r2 \in 1..len : KeyEqual(payload[r1].key, payload[r2].key) => r1 = r2

\* C4: with one SUM aggregate, after calls that all returned, every key fed
\* has exactly one group and the state of each group is the sum of the values
\* fed with its key.
C4_SumPerGroup ==
    Returned =>
        /\ \A k \in DOMAIN expected : Cardinality(RowsOf(payload, k)) = 1
        /\ \A r \in 1..len : payload[r].sum = Expect(expected, payload[r].key)

\* C5: add_groups returns len after the call minus len before the call, which
\* is the number of distinct keys of the batch that were not in the table.
C5_ReturnsNewGroups ==
    [][(AddStep /\ status' = "ok") =>
          /\ ret' = Len(payload') - Len(payload)
          /\ ret' = Cardinality({k \in Range(batch'.keys) : RowsOf(payload, k) = {}})]_vars

\* C6 as claimed: after add_groups returns, len <= capacity / LOAD_FACTOR.
C6_LoadFactor ==
    Returned => len * LOAD_FACTOR_NUM <= capacity * LOAD_FACTOR_DEN

\* C6 as amended: len <= capacity / LOAD_FACTOR holds when a call of
\* add_groups starts probing (after its capacity check), and len < capacity
\* when it returns.
C6_LoadFactorWhenProbing ==
    [][(AddStep /\ status' = "ok") =>
          /\ Len(payload) * LOAD_FACTOR_NUM <= capacity' * LOAD_FACTOR_DEN
          /\ Len(payload') < capacity']_vars

\* add_groups returned with len > capacity / LOAD_FACTOR
C6_Witness ==
    /\ Returned
    /\ ret = 1
    /\ len * LOAD_FACTOR_NUM > capacity * LOAD_FACTOR_DEN

\* C7: when len > capacity / LOAD_FACTOR, the next add_groups call (of any
\* batch size) resizes first, and len <= capacity / LOAD_FACTOR holds for the
\* new capacity when it probes.
C7_NextCallResizes ==
    [][(AddStep /\ Returned /\ len * LOAD_FACTOR_NUM > capacity * LOAD_FACTOR_DEN) =>
          /\ capacity' >= 2 * capacity
          /\ len * LOAD_FACTOR_NUM <= capacity' * LOAD_FACTOR_DEN]_vars

\* the call after len exceeded capacity / LOAD_FACTOR has returned
C7_Witness ==
    /\ Returned
    /\ capacity = 2 * InitialCapacity
    /\ len > resize_threshold(InitialCapacity)

\* C8: a new table has capacity 128, an empty directory and no rows; the
\* capacity stays a power of two >= 128 and never shrinks.
C8_Capacity ==
    /\ capacity = 128 /\ entries = [i \in 1..128 |-> EmptyEntry] /\ payload = <<>>
    /\ [](IsPowerOfTwo(capacity) /\ capacity >= 128)
    /\ [][capacity' >= capacity]_vars

\* a capacity check that doubled the capacity more than once
C8_Witness == capacity = 4 * InitialCapacity

\* C9: resize leaves the payload unchanged, and every key present before a
\* resize is found, not created again, by a later add_groups.
C9_ResizeKeepsGroups ==
    [][/\ (ResizeStep /\ status' = "ok") => payload' = payload
       /\ (AddStep /\ status' = "ok" /\ (resizes > 0 \/ capacity' > InitialCapacity)) =>
             \A k \in Range(batch'.keys) :
                 RowsOf(payload, k) # {} => RowsOf(payload', k) = RowsOf(payload, k)]_vars

\* C10: 200 distinct keys fed in one batch to a new table give len = 200,
\* one group per key and capacity >= 512.
C10_ForcedResize ==
    (batch = ForcedResize /\ calls = 1 /\ resizes = 0) =>
        /\ Returned
        /\ len = ForcedRows
        /\ \A k \in 1..ForcedRows : Cardinality(RowsOf(payload, Key1(k))) = 1
        /\ capacity >= 512

\* C11: nulls-equal grouping: after calls that returned, no two groups have
\* keys that are equal column by column (null equal to null, null unequal to
\* non-null), every key fed has a group, and the state of each group counts
\* the rows fed with a key equal to its key.
C11_NullsEqual ==
    Returned =>
        /\ \A r1, r2 \in 1..len :
               KeyEqual(payload[r1].key, payload[r2].key) => r1 = r2
        /\ \A k \in DOMAIN expected : RowsOf(payload, k) # {}
        /\ \A r \in 1..len :
               payload[r].sum = Expect(expected, Canon(payload[r].key))

\* a step of add_groups with the empty batch
EmptyStep == AddStep /\ batch' = EmptyBatch /\ Returned

\* C12 as claimed: add_groups with an empty batch returns 0 and leaves the
\* capacity, the directory and the payload unchanged in every table state.
C12_EmptyBatchNoOp ==
    [][EmptyStep =>
          /\ status' = "ok" /\ ret' = 0
          /\ capacity' = capacity /\ entries' = entries /\ payload' = payload]_vars

\* C12 as amended: add_groups with an empty batch returns 0 and leaves the
\* payload unchanged; it leaves the capacity and the directory unchanged when
\* len <= capacity / LOAD_FACTOR and len < capacity, and otherwise it first
\* resizes to at least twice the capacity.
C12_EmptyBatchKeepsRows ==
    [][EmptyStep =>
          /\ status' = "ok" /\ ret' = 0 /\ payload' = payload
          /\ IF len * LOAD_FACTOR_NUM <= capacity * LOAD_FACTOR_DEN /\ len < capacity
             THEN capacity' = capacity /\ entries' = entries
             ELSE capacity' >= 2 * capacity]_vars

\* an empty batch has resized a table with len > capacity / LOAD_FACTOR
C12_Witness ==
    /\ Returned /\ batch = EmptyBatch /\ ret = 0
    /\ capacity = 2 * InitialCapacity
    /\ len = resize_threshold(InitialCapacity) + 1
    /\ \A r \in Rows : Cardinality(Refs(r)) = 1

\* the rows of a batch whose key is not in the payload pl and does not occur
\* earlier in the batch
NewIdx(keys, pl) ==
    {i \in 1..Len(keys) :
        /\ RowsOf(pl, keys[i]) = {}
        /\ \A j \in 1..(i - 1) : ~KeyEqual(keys[j], keys[i])}

\* the keys a batch adds to the payload pl, in the order of their first
\* occurrence in the batch
FirstNew(keys, pl) ==
    [n \in 1..Cardinality(NewIdx(keys, pl)) |->
        keys[CHOOSE i \in NewIdx(keys, pl) :
                 Cardinality({j \in NewIdx(keys, pl) : j <= i}) = n]]

\* C13: an add_groups call that returns keeps the rows of earlier calls in
\* place and appends the groups it creates in the order in which their keys
\* first occur in the batch.
C13_InsertionOrder ==
    [][(AddStep /\ status' = "ok") =>
          /\ Len(payload') >= Len(payload)
          /\ \A r \in 1..Len(payload) : payload'[r].key = payload[r].key
          /\ [r \in 1..(Len(payload') - Len(payload)) |->
                 payload'[Len(payload) + r].key] = FirstNew(batch'.keys, payload)]_vars

\* C14: two tables fed the same sequence of batches hold the same payload
\* rows in the same order with the same states (whatever resize calls one of
\* them received in between).
C14_Deterministic ==
    (Returned /\ other.status = "ok") => other.payload = payload

\* C15: finalizing a table after calls that returned emits len tuples, the
\* r-th for payload row r, and len is the number of distinct keys fed.
C15_FinalizeLen ==
    Returned =>
        /\ Len(finalize_into(payload)) = len
        /\ \A r \in 1..len : finalize_into(payload)[r].key = payload[r].key
        /\ len = Cardinality(DOMAIN expected)

\* a step of combine
CombineStep == merges' = merges + 1

\* no two rows of the payload pl hold equal keys
Unique(pl) == \A r1, r2 \in 1..Len(pl) : KeyEqual(pl[r1].key, pl[r2].key) => r1 = r2

KeysOf(pl) == {Canon(pl[r].key) : r \in 1..Len(pl)}

\* the state of the group of key k in the payload pl
SumIn(pl, k) == pl[CHOOSE r \in RowsOf(pl, k) : TRUE].sum

\* the SUM state of key k after merging the payloads self and o
MergedSum(self, o, k) ==
    IF RowsOf(self, k) = {} THEN SumIn(o, k)
    ELSE IF RowsOf(o, k) = {} THEN SumIn(self, k)
    ELSE SumMerge(SumIn(self, k), SumIn(o, k))

\* C16: after self.combine(other) on two tables with one group per key, the
\* groups of self are the union of the keys of both; a key of other only has
\* other's state, a key of both the merge of the two states, a key of self
\* only its old state.
C16_MergeUnion ==
    [][(CombineStep /\ Unique(payload) /\ Unique(other.payload)) =>
          /\ status' = "ok"
          /\ Unique(payload')
          /\ KeysOf(payload') = KeysOf(payload) \cup KeysOf(other.payload)
          /\ \A k \in KeysOf(payload') :
                 SumIn(payload', k) = MergedSum(payload, other.payload, k)]_vars

\* C17: combine does not modify other.
C17_MergeKeepsOther ==
    [][CombineStep => other' = other]_vars

\* combine was called on two tables with rows
C17_Witness ==
    /\ merges > 0
    /\ Returned /\ other.status = "ok"
    /\ len > 0 /\ Len(other.payload) > 1

\* the tables used as third operand: a new table fed one one-row batch
ThirdTables == {Fed(NewTable, b) : b \in RowBatches \cup OtherBatches}

\* the groups of a table with their finalized values
Groups(t) == {<<Canon(t.payload[r].key), t.payload[r].sum>> : r \in 1..Len(t.payload)}

\* T1.merge(T2.merge(T3)): T2 is merged with T3 first
MergeRight(t1, t2, t3) == combine(t1, combine(t2, t3).self).self

\* T1.merge(T2).merge(T3)
MergeLeft(t1, t2, t3) == combine(combine(t1, t2).self, t3).self

RefsIn(ents, r) ==
    {s \in 1..Len(ents) : ents[s].page_nr # 0 /\ RowOf(ents[s]) = r}

\* a lookup of key k: probe_and_create of the one-row batch [k] returns and
\* creates no group
IsFound(ents, cap, pl, k) ==
    \E p \in {probe_and_create(ents, cap, pl, <<k>>)} :
        p.fault = "none" /\ p.new_group_count = 0

\* C19: a resize call with the current capacity returns and leaves capacity
\* and payload unchanged; after it every payload row has exactly one
\* directory entry and every key of the payload is found by a lookup.
C19_ResizeIdempotent ==
    [][(ResizeStep /\ (status' # "ok" \/ capacity' = capacity)) =>
          /\ status' = "ok"
          /\ capacity' = capacity
          /\ payload' = payload
          /\ \A r \in 0..(Len(payload') - 1) : Cardinality(RefsIn(entries', r)) = 1
          /\ \A r \in 1..Len(payload') :
                 IsFound(entries', capacity', payload', payload'[r].key)]_vars

\* C20: when a table is dropped, after calls that returned or after a call
\* that failed, drop_state has been called exactly once for every payload row
\* if the aggregate needs a manual drop, and not at all if it does not.
C20_DropOnce ==
    status = "dropped" =>
        /\ Len(drops) = len
        /\ \A r \in 1..len : drops[r] = IF need_drop THEN 1 ELSE 0

\* a table with several rows dropped after a failed add_groups call
C20_Witness ==
    /\ status = "dropped"
    /\ need_drop
    /\ ret = -1
    /\ len > 2

\* C21: over the lifetime of a table whose aggregate needs a manual drop,
\* the state of every payload row is released exactly once: a dropped table
\* has one release per row, whether or not it was finalized before.
C21_ReleasedOnce ==
    (status = "dropped" /\ need_drop) =>
        /\ Len(drops) = len
        /\ \A r \in 1..len : drops[r] = 1

\* add_groups returned the error of the aggregate's accumulate
Failed == status = "ok" /\ ret = -2

\* C22: when accumulate fails inside add_groups, the call returns the error
\* and the table stays well-defined: the capacity is a power of two >= 128,
\* every payload row (those the failed batch created included) has exactly
\* one directory entry, with the salt of its hash, and no two rows hold
\* equal keys.
C22_ErrorKeepsTable ==
    Failed =>
        /\ IsPowerOfTwo(capacity) /\ capacity >= 128
        /\ Len(entries) = capacity
        /\ \A r \in Rows :
               /\ Cardinality(Refs(r)) = 1
               /\ \A x \in Refs(r) : entries[x].salt = HashSalt(payload[r + 1].hash)
        /\ Unique(payload)

\* the state of the group of key k in the payload pl, 0 when it has none
BaseSum(pl, k) == IF RowsOf(pl, k) = {} THEN 0 ELSE SumIn(pl, k)

\* the running sum of the group of row i of batch b once row i is added,
\* for a table whose payload was pl before the batch
Running(pl, b, i) == BaseSum(pl, b.keys[i]) + FedRange(b, b.keys[i], 1, i)

\* the rows of batch b on which the running sum of a group is out of range
Overflows(pl, b) == {i \in 1..Len(b.keys) : OutOfRange(Running(pl, b, i))}

\* C23: with an overflow-checked decimal SUM, on a table with one group per
\* key, when the running sum of a group first leaves [MIN, MAX] on row i of
\* a batch, add_groups returns the Overflow error, the groups of the rows
\* before i exist, and every group other than the offending one holds
\* exactly its sum over the rows before i.
C23_OverflowSurfaces ==
    [][(/\ AddStep /\ Returned /\ aggr.kind = "decimal" /\ aggr.OVERFLOW
        /\ Unique(payload) /\ Overflows(payload, batch') # {}) =>
          /\ status' = "ok" /\ ret' = -2
          /\ \A j \in 1..(Min(Overflows(payload, batch')) - 1) :
                 RowsOf(payload', batch'.keys[j]) # {}
          /\ \A k \in KeysOf(payload') :
                 ~KeyEqual(k, batch'.keys[Min(Overflows(payload, batch'))]) =>
                     /\ Cardinality(RowsOf(payload', k)) = 1
                     /\ SumIn(payload', k) =
                            BaseSum(payload, k)
                                + FedRange(batch', k, 1,
                                           Min(Overflows(payload, batch')) - 1)]_vars

\* the rows of the payload pl2 whose sum is out of range and was not out of
\* range in the payload pl
NewlyOut(pl, pl2) ==
    {r \in 1..Len(pl2) :
        /\ OutOfRange(pl2[r].sum)
        /\ r \in 1..Len(pl) => ~OutOfRange(pl[r].sum)}

\* C24: for every decimal argument type, an add_groups call that takes the
\* sum of a group outside [MIN, MAX] returns the Overflow error, and so does
\* a merge of two in-range states whose sum is out of range.
C24_NoSilentOverflow ==
    /\ [][(AddStep /\ Returned /\ aggr.kind = "decimal"
             /\ NewlyOut(payload, payload') # {}) => ret' = -2]_vars
    /\ \A a \in DecimalSums : \A v \in MIN..MAX, rhs \in MIN..MAX :
           OutOfRange(DecimalSumMerge(v, rhs, a.OVERFLOW).value)
               => DecimalSumMerge(v, rhs, a.OVERFLOW).err

\* C25: add_groups called with a number of argument-column lists different
\* from the number of aggregates fails with an InvalidArgument error and
\* accumulates into no aggregate state.
C25_ArgumentCount ==
    [][(AddStep /\ Returned /\ "lists" \in DOMAIN batch' /\ batch'.lists # 1) =>
          /\ status' = "ok" /\ ret' = -2
          /\ \A r \in 1..Len(payload') :
                 payload'[r].sum = IF r <= Len(payload) THEN payload[r].sum ELSE 0]_vars

\* the payload pl2 holds the rows of pl, in place, with their keys and hashes
Extends(pl, pl2) ==
    /\ Len(pl2) >= Len(pl)
    /\ \A r \in 1..Len(pl) : pl2[r].key = pl[r].key /\ pl2[r].hash = pl[r].hash

\* C26: rows are append-only: over every step of add_groups, resize and
\* combine, on both tables, len does not decrease and every row keeps its
\* index, its group key and its stored hash.
C26_AppendOnly ==
    [][Extends(payload, payload') /\ Extends(other.payload, other'.payload)]_vars

\* two tables with rows after add_groups, resize and combine
C26_Witness ==
    /\ merges > 0 /\ resizes > 0
    /\ Returned /\ other.status = "ok"
    /\ len > 2
    /\ Len(other.payload) > 1
    /\ \E r1, r2 \in 1..len : payload[r1].key # payload[r2].key

\* the smallest power of two >= 2 * cap that leaves more than n free slots
\* beside n_rows rows
SmallestCapacity(cap, n_rows, n) ==
    Min({c \in {Pow2(e) : e \in 0..20} : c >= 2 * cap /\ c - n_rows > n})

\* capacity - len <= N or len > capacity / LOAD_FACTOR
MustResize(cap, n_rows, n) ==
    cap - n_rows <= n \/ n_rows * LOAD_FACTOR_NUM > cap * LOAD_FACTOR_DEN

\* C27: add_groups with N rows resizes iff capacity - len <= N or
\* len > capacity / LOAD_FACTOR; the capacity it resizes to is the smallest
\* power of two >= 2 * capacity with new_capacity - len > N, and the
\* capacity is unchanged when it does not resize; a batch larger than the
\* capacity is absorbed by that one call, which returns.
C27_CapacityCheck ==
    [][(AddStep /\ Returned) =>
          /\ capacity' = IF MustResize(capacity, len, Len(batch'.keys))
                          THEN SmallestCapacity(capacity, len, Len(batch'.keys))
                          ELSE capacity
          /\ Len(batch'.keys) > capacity =>
                 status' = "ok" /\ Len(payload') <= capacity']_vars

\* C28: after a resize the directory has exactly capacity entries, and in
\* every state the length of the directory equals the capacity.
C28_DirectorySize ==
    /\ [](Len(entries) = capacity)
    /\ [][(ResizeStep /\ status' = "ok") => Len(entries') = capacity']_vars

\* the first slot not in used, in the order bucket, bucket + 1, ... taken
\* modulo cap
FirstFree(used, bucket, cap) ==
    CHOOSE x \in (0..(cap - 1)) \ used :
        \A y \in (0..(cap - 1)) \ used : (x - bucket) % cap <= (y - bucket) % cap

\* the slots of the rows lo..hi of the payload pl when they are inserted in
\* payload order into a directory of cap slots, after the slots in acc
RECURSIVE ReinsertRange(_,_,_,_,_)
ReinsertRange(pl, lo, hi, cap, acc) ==
    IF ~Evaluated(acc) \/ lo > hi THEN acc
    ELSE IF lo = hi
    THEN Append(acc, FirstFree(Range(acc), HashSlot(pl[lo + 1].hash, cap), cap))
    ELSE ReinsertRange(pl, (lo + hi) \div 2 + 1, hi, cap,
             ReinsertRange(pl, lo, (lo + hi) \div 2, cap, acc))

\* Reinsert(pl, cap)[r + 1] is the slot of row r
Reinsert(pl, cap) == ReinsertRange(pl, 0, Len(pl) - 1, cap, <<>>)

\* the entry resize writes for row r of the payload pl
EntryOf(pl, r) ==
    [salt        |-> HashSalt(pl[r + 1].hash),
     page_offset |-> r % row_per_page,
     page_nr     |-> (r \div row_per_page) + 1]

\* a step that resized: a resize call, or an add_groups call whose capacity
\* check resized
Resized == ResizeStep \/ capacity' > capacity

\* C29: a resize re-inserts every row r of the payload, in payload order:
\* starting at hash & (new_capacity - 1) it probes linearly, modulo
\* new_capacity, to the first empty slot and writes {salt = hash >> 48,
\* page_nr = r / row_per_page + 1, page_offset = r mod row_per_page} there;
\* no slot is written twice, and a resize call leaves every other slot empty.
C29_ResizeReinserts ==
    [][(Resized /\ status' = "ok") =>
          \E slots \in {Reinsert(payload, capacity')} :
              /\ \A r \in 0..(Len(payload) - 1) :
                     /\ slots[r + 1] < Len(entries')
                     /\ entries'[slots[r + 1] + 1] = EntryOf(payload, r)
              /\ ResizeStep =>
                     \A x \in 0..(Len(entries') - 1) :
                         x \notin Range(slots) => entries'[x + 1] = EmptyEntry]_vars

\* a resize has re-inserted rows of several pages
C29_Witness ==
    /\ Returned
    /\ capacity > InitialCapacity
    /\ \E x \in 1..Len(entries) :
           entries[x].page_nr > 2 /\ entries[x].page_offset > 0

\* C30: termination: from every table state and for every batch, the probe
\* loop of add_groups ends with every row placed (its key has a group when
\* the call is over), and the probe loop of resize ends for every row.
C30_Terminates ==
    [][Returned =>
          /\ status' # "hung"
          /\ AddStep =>
                 /\ status' = "ok"
                 /\ \A i \in 1..Len(batch'.keys) :
                        RowsOf(payload', batch'.keys[i]) # {}
          /\ ResizeStep => status' = "ok"]_vars

\* the result of the probe_and_create of an add_groups step: the table
\* before the step probed with the keys of the batch of the step
Probed == probe_and_create(entries, capacity, payload, batch'.keys)

\* addresses[i] (1-based i) of the probe result p is a payload row whose
\* group key equals the key of input row i
PointsAtOwnGroup(p, keys, i) ==
    /\ p.ps.addresses[i] # NULL
    /\ p.ps.addresses[i] < Len(p.payload)
    /\ KeyEqual(p.payload[p.ps.addresses[i] + 1].key, keys[i])

\* C31: when the probe loop of an add_groups call ends, addresses[i] is, for
\* every input row i, a payload row whose group key equals the key of row
\* i, so that the state place read from it is the state of the row's own
\* group.
C31_AddressesOwnGroup ==
    [][(AddStep /\ Returned) =>
          \E p \in {Probed} :
              p.fault = "none" =>
                  \A i \in 1..Len(batch'.keys) : PointsAtOwnGroup(p, batch'.keys, i)]_vars

\* the state of a probe_and_create call when its while loop is entered, for
\* the table rz left by the capacity check
LoopEntry(rz, keys, hs) ==
    [entries |-> rz.entries, capacity |-> rz.capacity, payload |-> rz.payload,
     ps |-> ajust_group_columns(hs, Len(keys), rz.capacity),
     sel |-> auto_increment(Len(keys)), new_group_count |-> 0, fault |-> rz.fault]

\* acc.seen are the states in which the passes made so far began, acc.t the
\* state after the last of them
PassAdd(acc, keys, hs, cap) ==
    [t |-> ProbeStep(acc.t, keys, hs, cap), seen |-> Append(acc.seen, acc.t)]

RECURSIVE PassRange(_,_,_,_,_)
PassRange(acc, n, keys, hs, cap) ==
    IF ~Evaluated(acc) \/ n = 0 \/ ProbeDone(acc.t) THEN acc
    ELSE PassRange(PassAdd(acc, keys, hs, cap), n - 1, keys, hs, cap)

\* the passes of the while loop entered in state t: seen are the states in
\* which they begin, in order, and t is the state after the last one
PassesFrom(t, keys, hs) ==
    PassRange([t |-> t, seen |-> <<>>], 2 * t.capacity + 2, keys, hs, t.capacity)

\* the passes of the probe loop of add_groups(keys) on the table
PassLog(ents, cap, pl, keys) ==
    PassesFrom(LoopEntry(CheckCapacity(ents, cap, pl, Len(keys)), keys,
                         hashes(Len(keys))),
               keys, hashes(Len(keys)))

Passes(ents, cap, pl, keys) == PassLog(ents, cap, pl, keys).seen

\* the state after the j-th pass of the log
After(log, j) == IF j < Len(log.seen) THEN log.seen[j + 1] ELSE log.t

\* the stages of the pass that begins in state t: the classification, the
\* rows appended and the addresses resolved
PassClassify(t) == Classify(t.sel, t.ps, t.entries)

PassAppend(t, c, keys) ==
    IF Len(c.empty_vector) # 0
    THEN append_rows(t.payload, t.ps.addresses, hashes(Len(keys)), t.sel,
                     Len(c.empty_vector), keys)
    ELSE [payload |-> t.payload, addresses |-> t.ps.addresses]

PassResolve(c, a) ==
    ResolveAddresses(c.group_compare_vector, c.entries, Len(a.payload), a.addresses)

\* the address step of one pass: for every row x of group_compare_vector
\* the entry at the row's probe position is non-empty, the step does not
\* fail, and the address of x is the existing payload row that entry names
AddressStepOK(t, c, r, len_after) ==
    /\ ~r.panic
    /\ \A x \in Range(c.group_compare_vector) :
           /\ c.entries[t.ps.ht_offsets[x + 1] + 1].page_nr >= 1
           /\ r.addresses[x + 1] = RowOf(c.entries[t.ps.ht_offsets[x + 1] + 1])
           /\ r.addresses[x + 1] \in 0..(len_after - 1)

PassAddressOK(t, keys) ==
    \E c \in {PassClassify(t)} :
        ~c.panic =>
            \E a \in {PassAppend(t, c, keys)} :
                AddressStepOK(t, c, PassResolve(c, a), Len(a.payload))

\* C32: in the address step of every pass of the probe loop, the entry read
\* for a row of group_compare_vector is the entry at the row's probe
\* position ht_offsets[i]; it is non-empty, page_nr - 1 does not underflow
\* and the address computed is an existing payload row.
C32_AddressStep ==
    [][(AddStep /\ Returned) =>
          \E seen \in {Passes(entries, capacity, payload, batch'.keys)} :
              \A j \in 1..Len(seen) : PassAddressOK(seen[j], batch'.keys)]_vars

\* the entries claimed in the pass that begins in state t hold, when the
\* address step reads the directory c.entries, the position of the row
\* appended for them (a is the result of append_rows)
WrittenBack(t, c, a) ==
    \A x \in Range(c.empty_vector) :
        /\ a.addresses[x + 1] # NULL
        /\ RowOf(c.entries[t.ps.ht_offsets[x + 1] + 1]) = a.addresses[x + 1]

PassWrittenBack(t, keys) ==
    \E c \in {PassClassify(t)} :
        ~c.panic => WrittenBack(t, c, PassAppend(t, c, keys))

\* C33: sentinel write-back: an entry claimed for a new group holds the
\* real (page_nr, page_offset) of the row appended for it before the
\* address and compare steps of the same pass read the directory and when
\* add_groups returns; no entry keeps the page_nr = 1, page_offset = 0
\* sentinel unless it is the entry of the row at page 1, offset 0.
C33_SentinelWriteBack ==
    [][(AddStep /\ Returned) =>
          /\ \E seen \in {Passes(entries, capacity, payload, batch'.keys)} :
                 \A j \in 1..Len(seen) : PassWrittenBack(seen[j], batch'.keys)
          /\ status' = "ok" => Cardinality(RefsIn(entries', 0)) <= 1]_vars

\* the pass from state t to state n has appended one payload row for each
\* input row classified as empty, in the order of empty_vector, with the
\* group values and the hash of that input row, and nothing else
AppendsEmptyRows(t, c, n, keys) ==
    /\ Len(n.payload) = Len(t.payload) + Len(c.empty_vector)
    /\ SubSeq(n.payload, 1, Len(t.payload)) = t.payload
    /\ \A x \in 1..Len(c.empty_vector) :
           /\ n.payload[Len(t.payload) + x].key = keys[c.empty_vector[x] + 1]
           /\ n.payload[Len(t.payload) + x].hash =
                  hashes(Len(keys))[c.empty_vector[x] + 1]

PassAppendsEmptyRows(t, n, keys) ==
    \E c \in {PassClassify(t)} : ~c.panic => AppendsEmptyRows(t, c, n, keys)

\* C34: in every pass of the probe loop the rows appended to the payload
\* are exactly the input rows classified as empty in that pass: one payload
\* row per such input row, with its group values and its hash, and no row
\* for any other input row.
C34_AppendsEmptyRows ==
    [][(AddStep /\ Returned) =>
          \E log \in {PassLog(entries, capacity, payload, batch'.keys)} :
              /\ log.t.fault = "none" =>
                     /\ Len(log.t.payload) = Len(payload')
                     /\ Extends(log.t.payload, payload')
              /\ \A j \in 1..Len(log.seen) :
                     PassAppendsEmptyRows(log.seen[j], After(log, j), batch'.keys)]_vars

\* a two-row batch whose second row alone created a group, in a later pass
\* than the one in which its first row was matched
C34_Witness ==
    /\ Returned
    /\ Len(batch.keys) = 2 /\ ret = 1
    /\ batch.keys[1] # batch.keys[2]
    /\ len > 2
    /\ payload[len].key = batch.keys[2]
    /\ payload[1].key = batch.keys[1]

\* the classification c of the selection sel puts every row of sel in
\* exactly one of empty_vector, group_compare_vector and no_match_vector
Partitions(sel, c) ==
    /\ Len(c.empty_vector) + Len(c.group_compare_vector) + Len(c.no_match_vector)
           = Len(sel)
    /\ Range(c.empty_vector) \cup Range(c.group_compare_vector)
           \cup Range(c.no_match_vector) = Range(sel)
    /\ Cardinality(Range(sel)) = Len(sel)

\* the rows of group_compare_vector whose key differs from the key of the
\* payload row their address points at, in the state n after the pass
Differing(c, n, keys) ==
    {x \in Range(c.group_compare_vector) :
        ~KeyEqual(n.payload[n.ps.addresses[x + 1] + 1].key, keys[x + 1])}

\* the pass from state t to state n keeps the books of the selection
Bookkeeping(t, c, n, keys) ==
    /\ Partitions(t.sel, c)
    /\ Range(n.sel) = Range(c.no_match_vector) \cup Differing(c, n, keys)
    /\ Cardinality(Range(n.sel)) = Len(n.sel)
    /\ \A i \in 1..Len(keys) :
           n.ps.ht_offsets[i] =
               IF (i - 1) \in Range(n.sel)
               THEN (t.ps.ht_offsets[i] + 1) % t.capacity
               ELSE t.ps.ht_offsets[i]

PassBookkeeping(t, n, keys) ==
    n.fault = "none" =>
        \E c \in {PassClassify(t)} : Bookkeeping(t, c, n, keys)

\* C35: selection bookkeeping: in every pass of the probe loop every row
\* of the selection is classified as exactly one of empty, salt match and
\* salt mismatch; the next selection is exactly the salt-mismatch rows and
\* the salt-match rows whose keys differ from the row they were compared
\* with, each once, and exactly those rows advance ht_offsets by 1 modulo
\* the capacity; no row is lost or duplicated.
C35_SelectionBookkeeping ==
    [][(AddStep /\ Returned) =>
          \E log \in {PassLog(entries, capacity, payload, batch'.keys)} :
              \A j \in 1..Len(log.seen) :
                  PassBookkeeping(log.seen[j], After(log, j), batch'.keys)]_vars

\* rows of a batch with equal keys have equal hashes
EqualKeysEqualHashes(keys, hs) ==
    \A i, j \in 1..Len(keys) : KeyEqual(keys[i], keys[j]) => hs[i] = hs[j]

\* the loop is entered with ht_offsets[i] = hash & (capacity - 1) and
\* hash_salts[i] = hash >> 48
DerivedFromHashes(t, hs) ==
    \A i \in 1..Len(hs) :
        /\ t.ps.ht_offsets[i] = hs[i].lo % t.capacity
        /\ t.ps.hash_salts[i] = hs[i].hi

\* the rows after the first n rows of the payload pl store the hash of an
\* input row with their key
StoresBatchHash(pl, n, keys, hs) ==
    \A r \in (n + 1)..Len(pl) :
        \E i \in 1..Len(keys) : KeyEqual(pl[r].key, keys[i]) /\ pl[r].hash = hs[i]

\* the stored hashes of the payload pl depend on the keys: when pl holds two
\* different keys, its rows do not all store the same hash
HashDependsOnKey(pl) ==
    (\E r1, r2 \in 1..Len(pl) : ~KeyEqual(pl[r1].key, pl[r2].key)) =>
        \E r1, r2 \in 1..Len(pl) : pl[r1].hash # pl[r2].hash

\* C36: the hash of an input row is computed from its group key: rows with
\* equal keys get equal hashes, the hash is not the same whatever the key,
\* the initial probe position is hash & (capacity - 1), the salt is
\* hash >> 48, and the hash stored in the payload row of a new group is the
\* hash computed for its input row.
C36_HashFromKey ==
    [][(AddStep /\ Returned /\ status' = "ok") =>
          \E hs \in {hashes(Len(batch'.keys))} :
              /\ EqualKeysEqualHashes(batch'.keys, hs)
              /\ DerivedFromHashes(
                     LoopEntry(CheckCapacity(entries, capacity, payload,
                                             Len(batch'.keys)),
                               batch'.keys, hs), hs)
              /\ StoresBatchHash(payload', Len(payload), batch'.keys, hs)
              /\ HashDependsOnKey(payload')]_vars

\* the sum of the values vals[lo..hi] of the input rows whose state place is
\* payload row `row`
RECURSIVE PlacedRange(_,_,_,_,_)
PlacedRange(places, vals, row, lo, hi) ==
    IF lo > hi THEN 0
    ELSE IF lo = hi THEN (IF places[lo] = row THEN vals[lo] ELSE 0)
    ELSE PlacedRange(places, vals, row, lo, (lo + hi) \div 2)
             + PlacedRange(places, vals, row, (lo + hi) \div 2 + 1, hi)

\* the states of the payload pl2 are those of pl with the rows beyond pl
\* initialised and nothing accumulated
NothingAccumulated(pl, pl2) ==
    \A r \in 1..Len(pl2) : pl2[r].sum = IF r <= Len(pl) THEN pl[r].sum ELSE 0

\* the states of the payload pl2 are those of the probe result p after one
\* accumulate_keys call over all rows of vals
AccumulatedOnce(p, pl2, vals) ==
    /\ Len(pl2) = Len(p.payload)
    /\ \A i \in 1..Len(vals) : p.ps.addresses[i] # NULL
    /\ \A r \in 1..Len(pl2) :
           pl2[r].sum = p.payload[r].sum
                            + PlacedRange(p.ps.addresses, vals, r - 1, 1, Len(vals))

ProbePath(from, to, cap) == {(from + d) % cap : d \in 0..((to - from) % cap)}

\* every slot on the path from the home bucket of payload row r to slot x
\* is a non-empty slot of the directory
ChainTo(r, x) ==
    \A y \in ProbePath(HashSlot(payload[r + 1].hash, capacity), x, capacity) :
        y < Len(entries) /\ entries[y + 1].page_nr # 0

\* C38: probe-chain invariant: after add_groups or resize returns, every
\* payload row has a directory entry, and all slots on the cyclic path from
\* the row's home bucket (stored hash & (capacity - 1)) to the slot of that
\* entry are non-empty, so that a linear probe for the row's key reaches
\* the entry before it reaches an empty slot.
C38_ProbeChain ==
    Returned =>
        \A r \in Rows : \E s \in Refs(r) : ChainTo(r, s - 1)

\* the pass that begins in state t reads the directory inside its bounds:
\* the probe position of every row of the selection (line 145) and the
\* index used by the address step for every row of group_compare_vector
\* (line 182) are below the length of the directory, and the directory has
\* an empty slot (len < capacity)
PassInBounds(t) ==
    /\ \A x \in Range(t.sel) : t.ps.ht_offsets[x + 1] < Len(t.entries)
    /\ \E c \in {PassClassify(t)} :
           ~c.panic => \A x \in Range(c.group_compare_vector) : x < Len(c.entries)
    /\ Len(t.payload) < t.capacity
    /\ \E y \in 1..Len(t.entries) : t.entries[y].page_nr = 0

\* C39: every directory access of add_groups and of resize uses an index
\* below the length of the directory, and the directory has an empty slot
\* (len < capacity) in every pass of the probe loop; no sequence of calls
\* reaches an out-of-bounds entry access.
C39_InBounds ==
    [][Returned =>
          /\ AddStep =>
                 \E seen \in {Passes(entries, capacity, payload, batch'.keys)} :
                     \A j \in 1..Len(seen) : PassInBounds(seen[j])
          /\ ResizeStep => status' = "ok"]_vars

\* the add_groups call of the step, on a table with two aggregates
CalledTwo ==
    add_groups_two(entries, capacity, payload, second.sums, batch'.keys,
                   batch'.vals, batch'.vals2, aggr, second.aggr)

\* the first aggregate is the one whose accumulate_keys fails for the probe
\* result p
FirstFails(p) == Accumulate(p, batch'.vals, aggr).fault = "error"

\* C40: no rollback on aggregate failure: when accumulate_keys of the j-th
\* aggregate fails in add_groups, the call returns the error and not the
\* new-group count, the groups the batch created stay in the payload, the
\* aggregates before j have been applied to all N rows and the aggregates
\* after j to none.
C40_NoRollback ==
    [][(AddStep /\ Returned /\ second.present /\ CalledTwo.table.fault = "error") =>
          \E p \in {Probed} :
              /\ status' = "ok" /\ ret' = -2
              /\ Len(payload') = Len(p.payload) /\ Extends(p.payload, payload')
              /\ Len(second'.sums) = Len(payload')
              /\ IF FirstFails(p)
                 THEN second'.sums = InitStates(second.sums, Len(payload'))
                 ELSE AccumulatedOnce(p, payload', batch'.vals)]_vars

\* a two-row batch that created a group and in which the second aggregate
\* failed after the first was applied to both rows
C40_Witness ==
    /\ Returned /\ ret = -2
    /\ second.present
    /\ Len(batch.keys) = 2
    /\ len > 2
    /\ payload[len].key = batch.keys[1]
    /\ payload[len].sum = batch.vals[1]
    /\ \E r \in 1..len : OutOfRange(second.sums[r])
    /\ \A r \in 1..len : ~OutOfRange(payload[r].sum)

====
